---- MODULE Spec2Model ----
(***************************************************************************)
(* A model of hashtable_shm: the shared-memory ring buffers (shm_ipc.rs),  *)
(* the bucket-locked hash table (hashtable.rs), the server's worker loop   *)
(* (hashtable_shm_server/src/main.rs) and the client driver                *)
(* (hashtable_shm_client/src/main.rs).                                     *)
(*                                                                         *)
(* The module holds several specifications over one set of variables:      *)
(*   SpecRing   one ring buffer used by free-running threads               *)
(*   SpecTable  the hash table used by free-running threads                *)
(*   SpecTableSeq  the hash table used by one thread, call after call      *)
(*   SpecSys    one client, its two rings, the server's workers, the table *)
(*   SpecSysFair   SpecSys under a fair scheduler                          *)
(*   SpecTwo    two clients with one worker each on the one table          *)
(*   SpecShm    creation of the segments by the server against the         *)
(*              clients' attach, and the server's shutdown                 *)
(* Every call of a ring or table function is a sequence of steps of the    *)
(* calling thread; rpc[t] / tpc[t] is the thread's position inside the     *)
(* ring / table function it is executing ("none" outside of one).          *)
(***************************************************************************)
EXTENDS Integers, Sequences, FiniteSets, TLC

\* shm_ipc.rs:31
BUFFER_SIZE == 10

\* ---- bounds of the model ----
\* threads using the ring in SpecRing
RingThreads == 2
\* put calls that succeed in SpecRing
MaxPuts == 10
\* get calls made in SpecRing
MaxGets == 11
\* threads using the table in SpecTable
TableThreads == 2
\* table calls made in SpecTable
MaxCalls == 4
\* bucket counts tried: size \in 1..MaxSize
MaxSize == 2
\* keys are 0..MaxKey, values 1..MaxVal (0 is the value of a response without one)
MaxKey == 2
MaxVal == 2
\* worker threads per client tried in SpecSys: threads \in 1..MaxWorkers
MaxWorkers == 2
\* operations on a client's command line in SpecSys: 1..MaxOps
MaxOps == 2
\* the keys on a client's command line in SpecSys are 1..MaxClientKey
MaxClientKey == 1
\* clients a server is started for: clients \in 1..MaxClients
MaxClients == 2
\* calls the one thread of SpecTableSeq makes
MaxSeqCalls == 3

VARIABLES
    \* ---- shared memory: the rings of every client segment ----
    rings,      \* [RingIds -> RingBuffer record]
    \* ---- a thread's position inside RingBuffer::put / RingBuffer::get ----
    rpc,        \* [Threads -> position]
    rarg,       \* [Threads -> [ring, data]]  arguments of the running call
    rres,       \* [Threads -> [ok, data]]    result of the last call
    \* ---- history of each ring (not program state) ----
    pending,    \* [RingIds -> Seq([slot, data])]  puts not yet returned, oldest first
    live,       \* [RingIds -> SUBSET slots]  slots put and not yet consumed
    nPut,       \* [RingIds -> Nat]  successful puts since init
    nGot,       \* [RingIds -> Nat]  completed gets since init
    lastGet,    \* [RingIds -> [data, fresh, inorder]]  what the latest get returned
    \* ---- SpecRing: the free-running users of one ring ----
    consumers,  \* the threads that call get
    \* ---- the hash table (hashtable.rs) ----
    size,       \* HashTable.size: the number of buckets
    hasher,     \* [Keys -> Nat]  DefaultHasher's value for each key
    buckets,    \* [0..size-1 -> Seq(Entry)]  the chain of each bucket
    rwlock,     \* [0..size-1 -> [writer, readers]]  the RwLock of each bucket
    \* ---- a thread's position inside HashTable::add / read / delete ----
    tpc,        \* [Threads -> position]
    targ,       \* [Threads -> [op, key, val, pos, entry_pos]]
    tres,       \* [Threads -> [err, val]]  result of the last call
    \* ---- history of the table (not program state) ----
    absMap,     \* [Keys -> value or NoVal]  the key->value map the calls have built
    absRes,     \* [Threads -> [err, val]]  what a map would have answered
    nCalls,     \* number of table calls made by the users of SpecTable
    tlog,       \* the calls of the one thread of SpecTableSeq, in order
    \* ---- the server's and the clients' threads (the two main.rs) ----
    clients,    \* server argument: the number of clients
    threads,    \* server argument: worker threads per client
    operations, \* [ClientIds -> set of operations]  what the client's command line is made of
    count,      \* [ClientIds -> Nat]  args.operations.len() of each client
    spc,        \* [Threads -> position]  position in the thread's own code
    counter,    \* [ClientIds -> Nat]  index of the client's submit loop
    drained,    \* [ClientIds -> Nat]  iterations the client's drainer has made
    wreq,       \* [Threads -> Request]  the request a worker is serving
    wresp,      \* [Threads -> Response]  the response a worker is putting
    \* ---- history of each client (not program state) ----
    submitted,  \* [ClientIds -> Seq(Request)]  requests put, in order
    received,   \* [ClientIds -> Seq(Response)]  responses the drainer got, in order
    \* ---- the segments (ShmQueue::new, ShmQueue::stop) ----
    names,      \* the clients c whose name "hashtable-<c>" exists
    sized,      \* the clients whose segment has its full size
    initialised,\* the rings whose RingBuffer::init has returned
    client_id,  \* the server's loop over the clients (server main.rs:48)
    ipcs,       \* the clients whose ShmQueue the server holds (main.rs:47, 59)
    created,    \* history: the clients whose name this server's shm_open has made
    touched     \* the clients that made a ring call on a ring not yet initialised

ringHist == <<pending, live, nPut, nGot, lastGet>>
ringVars == <<rings, rpc, rarg, rres, pending, live, nPut, nGot, lastGet>>
ringUserVars == <<consumers>>
tableVars == <<size, hasher, buckets, rwlock, tpc, targ, tres, absMap, absRes>>
tableUserVars == <<nCalls, tlog>>
sysVars == <<clients, threads, operations, count, spc, counter, drained, wreq, wresp, submitted, received>>
shmVars == <<names, sized, initialised, client_id, ipcs, created, touched>>
vars == <<rings, rpc, rarg, rres, pending, live, nPut, nGot, lastGet,
          consumers,
          size, hasher, buckets, rwlock, tpc, targ, tres, absMap, absRes,
          nCalls, tlog,
          clients, threads, operations, count, spc, counter, drained, wreq, wresp, submitted, received,
          names, sized, initialised, client_id, ipcs, created, touched>>

\* ------------------------------------------------------------------------
\* Threads and rings
\* ------------------------------------------------------------------------
NoThread == <<"none", 0, 0>>
RingUsers == {<<"user", 0, i>> : i \in 1..RingThreads}
TableUsers == {<<"tuser", 0, i>> : i \in 1..TableThreads}
ClientIds == 0..(MaxClients - 1)
Main(c) == <<"main", c, 0>>
Drainer(c) == <<"drainer", c, 0>>
Worker(c, i) == <<"worker", c, i>>
Workers(c) == {Worker(c, i) : i \in 1..MaxWorkers}
SysThreads ==
    UNION {{Main(c), Drainer(c)} \cup Workers(c) : c \in ClientIds}
ServerMain == <<"server", 0, 0>>
Threads == RingUsers \cup TableUsers \cup SysThreads \cup {ServerMain}

Keys == 0..MaxKey
Vals == 1..MaxVal

Slots == 0..(BUFFER_SIZE - 1)
ReqRing(c) == <<c, "request">>
RespRing(c) == <<c, "response">>
RingIds == {ReqRing(c) : c \in ClientIds} \cup {RespRing(c) : c \in ClientIds}
TestRing == <<0, "request">>

\* The segment is zero-filled by ftruncate: a slot never written reads as
\* the all-zero record (Operation::Read has discriminant 0).
ZeroRequest == [operation |-> "Read", key |-> 0, val |-> 0, counter |-> 0]
ZeroResponse ==
    [operation |-> "Read", error |-> FALSE, key |-> 0, val |-> 0, counter |-> 0]
ZeroElement(r) == IF r[2] = "request" THEN ZeroRequest ELSE ZeroResponse

\* a ring of a segment as ftruncate leaves it: all zero, nothing set up
ZeroRingBuffer(r) ==
    [lock |-> NoThread, waiters |-> {}, lock_init |-> FALSE, cond_init |-> FALSE,
     buffer |-> [i \in Slots |-> ZeroElement(r)],
     read_pos |-> 0, write_pos |-> 0]

\* RingBuffer::init has run: both primitives set up, both indices zero
InitRingBuffer(r) ==
    [lock |-> NoThread, waiters |-> {}, lock_init |-> TRUE, cond_init |-> TRUE,
     buffer |-> [i \in Slots |-> ZeroElement(r)],
     read_pos |-> 0, write_pos |-> 0]

NoArg == [ring |-> TestRing, data |-> ZeroRequest]
NoRes == [ok |-> TRUE, data |-> ZeroRequest]

\* ------------------------------------------------------------------------
\* RingBuffer::put and RingBuffer::get
\* ------------------------------------------------------------------------
IsFull(rb) == (rb.write_pos + 1) % BUFFER_SIZE = rb.read_pos
IsEmpty(rb) == rb.read_pos = rb.write_pos
\* an index that is advanced without the wrap
Advance_NoWrap(pos) == pos + 1

Advance(pos) == (pos + 1) % BUFFER_SIZE

\* a pthread_cond_signal that wakes nobody
SignalTargets_None(rb) == {NoThread}

\* pthread_cond_signal wakes one of the threads blocked in pthread_cond_wait,
\* if there is one: the woken thread leaves the wait set and still has to
\* take the mutex again before it returns from pthread_cond_wait.
SignalTargets(rb) == IF rb.waiters = {} THEN {NoThread} ELSE rb.waiters

\* put, lines 262-266: the ring after the store, the advance of write_pos
\* and the signal, which wakes w
Stored(rb, data, w) ==
    [rb EXCEPT !.buffer[rb.write_pos] = data,
               !.write_pos = Advance(rb.write_pos),
               !.waiters = rb.waiters \ {w}]

\* get, lines 296-300: the signal is sent if elements are left after the take
TakeTargets(rb) ==
    IF Advance(rb.read_pos) # rb.write_pos THEN SignalTargets(rb) ELSE {NoThread}

\* get, lines 293-300: the ring after the advance of read_pos and the
\* signal, which wakes w
Taken(rb, w) ==
    [rb EXCEPT !.read_pos = Advance(rb.read_pos),
               !.waiters = rb.waiters \ {w}]

\* history: a put stored data in ring r
RecordPut(r, data) ==
    /\ pending' = [pending EXCEPT ![r] =
           Append(pending[r], [slot |-> rings[r].write_pos, data |-> data])]
    /\ live' = [live EXCEPT ![r] = live[r] \cup {rings[r].write_pos}]
    /\ nPut' = [nPut EXCEPT ![r] = nPut[r] + 1]
    /\ UNCHANGED <<nGot, lastGet>>

\* history: a get took the slot at read_pos of ring r
RecordGet(r) ==
    LET rb == rings[r] IN
    /\ lastGet' = [lastGet EXCEPT ![r] =
           [data |-> rb.buffer[rb.read_pos],
            fresh |-> rb.read_pos \in live[r],
            inorder |-> /\ pending[r] # <<>>
                        /\ Head(pending[r]).slot = rb.read_pos
                        /\ Head(pending[r]).data = rb.buffer[rb.read_pos]]]
    /\ pending' = [pending EXCEPT ![r] =
           IF pending[r] = <<>> THEN <<>> ELSE Tail(pending[r])]
    /\ live' = [live EXCEPT ![r] = live[r] \ {rb.read_pos}]
    /\ nGot' = [nGot EXCEPT ![r] = nGot[r] + 1]
    /\ UNCHANGED nPut

\* a lock call that does not wait for the holder
RingPutLock_Barges(t) ==
    /\ rpc[t] = "put_lock"
    /\ rings' = [rings EXCEPT ![rarg[t].ring].lock = t]
    /\ rpc' = [rpc EXCEPT ![t] = "put_body"]
    /\ UNCHANGED <<rarg, rres, ringHist>>

\* put, line 251: pthread_mutex_lock
RingPutLock(t) ==
    /\ rpc[t] = "put_lock"
    /\ rings[rarg[t].ring].lock = NoThread
    /\ rings' = [rings EXCEPT ![rarg[t].ring].lock = t]
    /\ rpc' = [rpc EXCEPT ![t] = "put_body"]
    /\ UNCHANGED <<rarg, rres, ringHist>>

\* put, lines 255-260: the ring is full: unlock, Err(BufferFull)
RingPutFull(t) ==
    /\ rpc[t] = "put_body"
    /\ IsFull(rings[rarg[t].ring])
    /\ rings' = [rings EXCEPT ![rarg[t].ring].lock = NoThread]
    /\ rpc' = [rpc EXCEPT ![t] = "ret"]
    /\ rres' = [rres EXCEPT ![t] = [ok |-> FALSE, data |-> rarg[t].data]]
    /\ UNCHANGED <<rarg, ringHist>>

\* put, lines 262-271: store, advance write_pos, signal, unlock, Ok(())
RingPutStore(t) ==
    LET r == rarg[t].ring
        rb == rings[r]
    IN  /\ rpc[t] = "put_body"
        /\ ~IsFull(rb)
        /\ \E w \in SignalTargets(rb) :
             rings' = [rings EXCEPT ![r] =
                 [Stored(rb, rarg[t].data, w) EXCEPT !.lock = NoThread]]
        /\ rpc' = [rpc EXCEPT ![t] = "ret"]
        /\ rres' = [rres EXCEPT ![t] = [ok |-> TRUE, data |-> rarg[t].data]]
        /\ RecordPut(r, rarg[t].data)
        /\ UNCHANGED rarg

\* get, line 281: pthread_mutex_lock
RingGetLock(t) ==
    /\ rpc[t] = "get_lock"
    /\ rings[rarg[t].ring].lock = NoThread
    /\ rings' = [rings EXCEPT ![rarg[t].ring].lock = t]
    /\ rpc' = [rpc EXCEPT ![t] = "get_check"]
    /\ UNCHANGED <<rarg, rres, ringHist>>

\* get, lines 285-289, ring empty: pthread_cond_wait releases the mutex and
\* blocks the thread on has_data
RingGetWait(t) ==
    LET r == rarg[t].ring
        rb == rings[r]
    IN  /\ rpc[t] = "get_check"
        /\ IsEmpty(rb)
        /\ rings' = [rings EXCEPT ![r] =
               [rb EXCEPT !.waiters = rb.waiters \cup {t}, !.lock = NoThread]]
        /\ rpc' = [rpc EXCEPT ![t] = "get_wait"]
        /\ UNCHANGED <<rarg, rres, ringHist>>

\* get, line 285, ring not empty: no wait
RingGetNoWait(t) ==
    /\ rpc[t] = "get_check"
    /\ ~IsEmpty(rings[rarg[t].ring])
    /\ rpc' = [rpc EXCEPT ![t] = "get_take"]
    /\ UNCHANGED <<rings, rarg, rres, ringHist>>

\* pthread_cond_wait that may also return without a signal (a spurious
\* wakeup, which POSIX allows): the thread leaves the wait set by itself
RingGetWake_Spurious(t) ==
    LET r == rarg[t].ring
        rb == rings[r]
    IN  /\ rpc[t] = "get_wait"
        /\ rb.lock = NoThread
        /\ rings' = [rings EXCEPT ![r] =
               [rb EXCEPT !.waiters = rb.waiters \ {t}, !.lock = t]]
        /\ rpc' = [rpc EXCEPT ![t] = "get_take"]
        /\ UNCHANGED <<rarg, rres, ringHist>>

\* get, line 287: pthread_cond_wait returns: the thread was signalled and
\* has the mutex again. The emptiness test of line 285 is an `if`: it is
\* not made again.
RingGetWake(t) ==
    LET r == rarg[t].ring
        rb == rings[r]
    IN  /\ rpc[t] = "get_wait"
        /\ t \notin rb.waiters
        /\ rb.lock = NoThread
        /\ rings' = [rings EXCEPT ![r].lock = t]
        /\ rpc' = [rpc EXCEPT ![t] = "get_take"]
        /\ UNCHANGED <<rarg, rres, ringHist>>

\* get, lines 291-306: copy the slot at read_pos, advance read_pos, signal
\* if elements are left, unlock, Ok(data)
RingGetTake(t) ==
    LET r == rarg[t].ring
        rb == rings[r]
    IN  /\ rpc[t] = "get_take"
        /\ \E w \in TakeTargets(rb) :
             rings' = [rings EXCEPT ![r] = [Taken(rb, w) EXCEPT !.lock = NoThread]]
        /\ rpc' = [rpc EXCEPT ![t] = "ret"]
        /\ rres' = [rres EXCEPT ![t] = [ok |-> TRUE, data |-> rb.buffer[rb.read_pos]]]
        /\ RecordGet(r)
        /\ UNCHANGED rarg

PutPositions == {"put_lock", "put_body"}
GetPositions == {"get_lock", "get_check", "get_wait", "get_take"}

\* ------------------------------------------------------------------------
\* HashTable::add, HashTable::read, HashTable::delete
\* ------------------------------------------------------------------------
NoVal == 0
NoTArg == [op |-> "none", key |-> 0, val |-> 0, pos |-> 0, entry_pos |-> 0]
NoTRes == [err |-> "none", val |-> 0]

\* HashTable::hash: the hasher's value of the key, modulo the bucket count
hash(key) == hasher[key] % size

\* (mutant of ChainHasKey) the scan stops after the first entry
ChainHasKey_HeadOnly(chain, key) == chain # <<>> /\ chain[1].key = key

\* bucket.iter().any(|x| x.key == key)
ChainHasKey(chain, key) == \E i \in 1..Len(chain) : chain[i].key = key

\* bucket.iter().position(|x| x.key == *key): the first match, counted
\* from 0 as the code does; -1 stands for None
ChainPosition(chain, key) ==
    IF ChainHasKey(chain, key)
    THEN (CHOOSE i \in 1..Len(chain) :
              /\ chain[i].key = key
              /\ \A j \in 1..(i - 1) : chain[j].key # key) - 1
    ELSE -1

\* a lookup that takes the first entry of the chain for the entry of the key
ChainFind_FirstEntry(chain, key) ==
    IF chain = <<>> THEN NoVal ELSE chain[1].val

\* bucket.iter().find(|x| x.key == *key).map(|x| x.val.clone()): NoVal is None
ChainFind(chain, key) ==
    IF ChainHasKey(chain, key)
    THEN chain[ChainPosition(chain, key) + 1].val
    ELSE NoVal

\* bucket.push_back(Entry { key, val })
ChainPushBack(chain, key, val) == Append(chain, [key |-> key, val |-> val])

\* (mutant of ChainRemoveAt) the rest is not appended again
ChainRemoveAt_DropsRest(chain, entry_pos) == SubSeq(chain, 1, entry_pos)

\* split_off(entry_pos), pop_front on the rest, append the rest
ChainRemoveAt(chain, entry_pos) ==
    LET front == SubSeq(chain, 1, entry_pos)
        rest_list == SubSeq(chain, entry_pos + 1, Len(chain))
        popped == IF rest_list = <<>> THEN <<>> ELSE Tail(rest_list)
    IN  front \o popped

\* (mutant of CanWrite) the write guard is handed out without waiting
CanWrite_NoWait(l) == TRUE

\* RwLock::write returns when no guard of the lock is held
CanWrite(l) == l.writer = NoThread /\ l.readers = {}
\* a read lock that does not wait for the writer
CanRead_NoWait(l) == TRUE

\* RwLock::read returns when no write guard is held
CanRead(l) == l.writer = NoThread

\* the answers of a key->value map to the three calls
AbsAdd(m, key, val) ==
    IF m[key] = NoVal
    THEN [map |-> [m EXCEPT ![key] = val], res |-> [err |-> "none", val |-> 0]]
    ELSE [map |-> m, res |-> [err |-> "KeyExists", val |-> 0]]
AbsRead(m, key) ==
    IF m[key] = NoVal
    THEN [map |-> m, res |-> [err |-> "absent", val |-> 0]]
    ELSE [map |-> m, res |-> [err |-> "none", val |-> m[key]]]
AbsDelete(m, key) ==
    IF m[key] = NoVal
    THEN [map |-> m, res |-> [err |-> "KeyMissing", val |-> 0]]
    ELSE [map |-> [m EXCEPT ![key] = NoVal], res |-> [err |-> "none", val |-> 0]]

\* add, lines 63-64: self.buckets[pos].write()
AddLock(t) ==
    /\ tpc[t] = "add_lock"
    /\ CanWrite(rwlock[targ[t].pos])
    /\ rwlock' = [rwlock EXCEPT ![targ[t].pos].writer = t]
    /\ tpc' = [tpc EXCEPT ![t] = "add_check"]
    /\ UNCHANGED <<size, hasher, buckets, targ, tres, absMap, absRes>>

\* (mutant of AddExists) the existing entry takes the new value before the
\* error is returned
AddExists_Overwrites(t) ==
    LET a == targ[t]
        chain == buckets[a.pos]
    IN
    /\ tpc[t] = "add_check"
    /\ ChainHasKey(chain, a.key)
    /\ buckets' = [buckets EXCEPT ![a.pos] =
           [i \in 1..Len(chain) |->
               IF chain[i].key = a.key THEN [key |-> a.key, val |-> a.val] ELSE chain[i]]]
    /\ rwlock' = [rwlock EXCEPT ![a.pos].writer = NoThread]
    /\ tres' = [tres EXCEPT ![t] = [err |-> "KeyExists", val |-> 0]]
    /\ tpc' = [tpc EXCEPT ![t] = "ret"]
    /\ absMap' = AbsAdd(absMap, a.key, a.val).map
    /\ absRes' = [absRes EXCEPT ![t] = AbsAdd(absMap, a.key, a.val).res]
    /\ UNCHANGED <<size, hasher, targ>>

\* add, lines 66-68: the key is in the chain: Err(KeyExists), guard dropped
AddExists(t) ==
    LET a == targ[t] IN
    /\ tpc[t] = "add_check"
    /\ ChainHasKey(buckets[a.pos], a.key)
    /\ rwlock' = [rwlock EXCEPT ![a.pos].writer = NoThread]
    /\ tres' = [tres EXCEPT ![t] = [err |-> "KeyExists", val |-> 0]]
    /\ tpc' = [tpc EXCEPT ![t] = "ret"]
    /\ absMap' = AbsAdd(absMap, a.key, a.val).map
    /\ absRes' = [absRes EXCEPT ![t] = AbsAdd(absMap, a.key, a.val).res]
    /\ UNCHANGED <<size, hasher, buckets, targ>>

\* add, line 66: the key is not in the chain
AddAbsent(t) ==
    /\ tpc[t] = "add_check"
    /\ ~ChainHasKey(buckets[targ[t].pos], targ[t].key)
    /\ tpc' = [tpc EXCEPT ![t] = "add_push"]
    /\ UNCHANGED <<size, hasher, buckets, rwlock, targ, tres, absMap, absRes>>

\* add, lines 70-73: push_back, Ok(()), guard dropped
AddPush(t) ==
    LET a == targ[t] IN
    /\ tpc[t] = "add_push"
    /\ buckets' = [buckets EXCEPT ![a.pos] = ChainPushBack(buckets[a.pos], a.key, a.val)]
    /\ rwlock' = [rwlock EXCEPT ![a.pos].writer = NoThread]
    /\ tres' = [tres EXCEPT ![t] = [err |-> "none", val |-> 0]]
    /\ tpc' = [tpc EXCEPT ![t] = "ret"]
    /\ absMap' = AbsAdd(absMap, a.key, a.val).map
    /\ absRes' = [absRes EXCEPT ![t] = AbsAdd(absMap, a.key, a.val).res]
    /\ UNCHANGED <<size, hasher, targ>>

\* read, line 78: self.buckets[pos].read()
ReadLock(t) ==
    /\ tpc[t] = "read_lock"
    /\ CanRead(rwlock[targ[t].pos])
    /\ rwlock' = [rwlock EXCEPT ![targ[t].pos].readers = @ \cup {t}]
    /\ tpc' = [tpc EXCEPT ![t] = "read_find"]
    /\ UNCHANGED <<size, hasher, buckets, targ, tres, absMap, absRes>>

\* read, lines 80-81: find the key, clone its value, guard dropped
ReadFind(t) ==
    LET a == targ[t]
        v == ChainFind(buckets[a.pos], a.key)
    IN
    /\ tpc[t] = "read_find"
    /\ rwlock' = [rwlock EXCEPT ![a.pos].readers = @ \ {t}]
    /\ tres' = [tres EXCEPT ![t] =
           IF v = NoVal THEN [err |-> "absent", val |-> 0] ELSE [err |-> "none", val |-> v]]
    /\ tpc' = [tpc EXCEPT ![t] = "ret"]
    /\ absRes' = [absRes EXCEPT ![t] = AbsRead(absMap, a.key).res]
    /\ UNCHANGED <<size, hasher, buckets, targ, absMap>>

\* delete, line 88: self.buckets[pos].write()
DeleteLock(t) ==
    /\ tpc[t] = "delete_lock"
    /\ CanWrite(rwlock[targ[t].pos])
    /\ rwlock' = [rwlock EXCEPT ![targ[t].pos].writer = t]
    /\ tpc' = [tpc EXCEPT ![t] = "delete_position"]
    /\ UNCHANGED <<size, hasher, buckets, targ, tres, absMap, absRes>>

\* (mutant of DeleteMissing) the head of the chain is removed before the
\* error is returned
DeleteMissing_DropsHead(t) ==
    LET a == targ[t] IN
    /\ tpc[t] = "delete_position"
    /\ ChainPosition(buckets[a.pos], a.key) = -1
    /\ buckets' = [buckets EXCEPT ![a.pos] = IF @ = <<>> THEN <<>> ELSE Tail(@)]
    /\ rwlock' = [rwlock EXCEPT ![a.pos].writer = NoThread]
    /\ tres' = [tres EXCEPT ![t] = [err |-> "KeyMissing", val |-> 0]]
    /\ tpc' = [tpc EXCEPT ![t] = "ret"]
    /\ absMap' = AbsDelete(absMap, a.key).map
    /\ absRes' = [absRes EXCEPT ![t] = AbsDelete(absMap, a.key).res]
    /\ UNCHANGED <<size, hasher, targ>>

\* delete, lines 93 and 100: no entry has the key: Err(KeyMissing), guard dropped
DeleteMissing(t) ==
    LET a == targ[t] IN
    /\ tpc[t] = "delete_position"
    /\ ChainPosition(buckets[a.pos], a.key) = -1
    /\ rwlock' = [rwlock EXCEPT ![a.pos].writer = NoThread]
    /\ tres' = [tres EXCEPT ![t] = [err |-> "KeyMissing", val |-> 0]]
    /\ tpc' = [tpc EXCEPT ![t] = "ret"]
    /\ absMap' = AbsDelete(absMap, a.key).map
    /\ absRes' = [absRes EXCEPT ![t] = AbsDelete(absMap, a.key).res]
    /\ UNCHANGED <<size, hasher, buckets, targ>>

\* delete, lines 93-94: Some(entry_pos)
DeleteFound(t) ==
    LET a == targ[t] IN
    /\ tpc[t] = "delete_position"
    /\ ChainPosition(buckets[a.pos], a.key) # -1
    /\ targ' = [targ EXCEPT ![t].entry_pos = ChainPosition(buckets[a.pos], a.key)]
    /\ tpc' = [tpc EXCEPT ![t] = "delete_remove"]
    /\ UNCHANGED <<size, hasher, buckets, rwlock, tres, absMap, absRes>>

\* (mutant of DeleteRemove) Ok(()) is returned and the chain is left alone
DeleteRemove_KeepsEntry(t) ==
    LET a == targ[t] IN
    /\ tpc[t] = "delete_remove"
    /\ buckets' = buckets
    /\ rwlock' = [rwlock EXCEPT ![a.pos].writer = NoThread]
    /\ tres' = [tres EXCEPT ![t] = [err |-> "none", val |-> 0]]
    /\ tpc' = [tpc EXCEPT ![t] = "ret"]
    /\ absMap' = AbsDelete(absMap, a.key).map
    /\ absRes' = [absRes EXCEPT ![t] = AbsDelete(absMap, a.key).res]
    /\ UNCHANGED <<size, hasher, targ>>

\* delete, lines 95-98: split_off, pop_front, append, Ok(()), guard dropped
DeleteRemove(t) ==
    LET a == targ[t] IN
    /\ tpc[t] = "delete_remove"
    /\ buckets' = [buckets EXCEPT ![a.pos] = ChainRemoveAt(buckets[a.pos], a.entry_pos)]
    /\ rwlock' = [rwlock EXCEPT ![a.pos].writer = NoThread]
    /\ tres' = [tres EXCEPT ![t] = [err |-> "none", val |-> 0]]
    /\ tpc' = [tpc EXCEPT ![t] = "ret"]
    /\ absMap' = AbsDelete(absMap, a.key).map
    /\ absRes' = [absRes EXCEPT ![t] = AbsDelete(absMap, a.key).res]
    /\ UNCHANGED <<size, hasher, targ>>

\* the first position of each function, after its hash of the key (lines
\* 61, 77 and 87, made before the lock is taken)
TableEntry(op) ==
    CASE op = "add" -> "add_lock"
      [] op = "read" -> "read_lock"
      [] op = "delete" -> "delete_lock"
TableCallArg(op, key, val) ==
    [op |-> op, key |-> key, val |-> val, pos |-> hash(key), entry_pos |-> 0]

\* HashTable::new(n), n > 0 (lines 38-48), with a hasher
InitTable(n, h) ==
    /\ size = n
    /\ hasher = h
    /\ buckets = [b \in 0..(n - 1) |-> <<>>]
    /\ rwlock = [b \in 0..(n - 1) |-> [writer |-> NoThread, readers |-> {}]]
    /\ tpc = [t \in Threads |-> "none"]
    /\ targ = [t \in Threads |-> NoTArg]
    /\ tres = [t \in Threads |-> NoTRes]
    /\ absMap = [k \in Keys |-> NoVal]
    /\ absRes = [t \in Threads |-> NoTRes]

\* ------------------------------------------------------------------------
\* The rings and the table as the client's and the server's threads use
\* them. A ring call is taken one critical section at a time here: the
\* ring's mutex is held from the first to the last access of a section, and
\* the table's bucket lock for the whole of a call, so no other thread sees
\* a state inside one. (SpecRing and SpecTable take the locks step by step.)
\* ------------------------------------------------------------------------
\* request_put / response_put -> put, lines 251-271, ring not full: Ok(())
QueuePutOk(r, data) ==
    /\ rings[r].lock = NoThread
    /\ ~IsFull(rings[r])
    /\ \E w \in SignalTargets(rings[r]) :
         rings' = [rings EXCEPT ![r] = Stored(rings[r], data, w)]
    /\ RecordPut(r, data)

\* put, lines 251-260, ring full: Err(BufferFull), nothing written
QueuePutFull(r) ==
    /\ rings[r].lock = NoThread
    /\ IsFull(rings[r])
    /\ UNCHANGED <<rings, ringHist>>

\* request_get / response_get -> get, lines 281-306, ring not empty: Ok(data)
QueueGetNoWait(r) ==
    /\ rings[r].lock = NoThread
    /\ ~IsEmpty(rings[r])
    /\ \E w \in TakeTargets(rings[r]) :
         rings' = [rings EXCEPT ![r] = Taken(rings[r], w)]
    /\ RecordGet(r)

\* get, lines 281-287, ring empty: the thread blocks in pthread_cond_wait
QueueGetWait(r, t) ==
    /\ rings[r].lock = NoThread
    /\ IsEmpty(rings[r])
    /\ rings' = [rings EXCEPT ![r].waiters = @ \cup {t}]
    /\ UNCHANGED ringHist

\* get, lines 287-306: a signalled thread returns from pthread_cond_wait and,
\* the test of line 285 being an `if`, goes on to take the slot at read_pos
QueueGetWake(r, t) ==
    /\ rings[r].lock = NoThread
    /\ t \notin rings[r].waiters
    /\ \E w \in TakeTargets(rings[r]) :
         rings' = [rings EXCEPT ![r] = Taken(rings[r], w)]
    /\ RecordGet(r)

\* (mutant of Front) the slot written last is returned
Front_Newest(r) == rings[r].buffer[(rings[r].write_pos + BUFFER_SIZE - 1) % BUFFER_SIZE]

\* what get returns from ring r in the current state (line 291)
Front(r) == rings[r].buffer[rings[r].read_pos]

\* add, lines 60-73, as one step on the chain of the key's bucket
AddResult(chain, key, val) ==
    IF ChainHasKey(chain, key)
    THEN [chain |-> chain, err |-> "KeyExists", val |-> 0]
    ELSE [chain |-> ChainPushBack(chain, key, val), err |-> "none", val |-> 0]

\* read, lines 76-81
ReadResult(chain, key) ==
    IF ChainFind(chain, key) = NoVal
    THEN [chain |-> chain, err |-> "absent", val |-> 0]
    ELSE [chain |-> chain, err |-> "none", val |-> ChainFind(chain, key)]

\* delete, lines 86-102
DeleteResult(chain, key) ==
    IF ChainPosition(chain, key) = -1
    THEN [chain |-> chain, err |-> "KeyMissing", val |-> 0]
    ELSE [chain |-> ChainRemoveAt(chain, ChainPosition(chain, key)),
          err |-> "none", val |-> 0]

\* ------------------------------------------------------------------------
\* The client driver (hashtable_shm_client/src/main.rs)
\* ------------------------------------------------------------------------
\* the operations a command line can hold: read K | insert K V | delete K
ClientKeys == 1..MaxClientKey
OperationsOn(keys) ==
    [kind : {"Read", "Delete"}, key : keys, value : {0}]
        \cup [kind : {"Insert"}, key : keys, value : Vals]
ClientOperations == OperationsOn(ClientKeys)

\* lines 140-159: the request of an operation at index n of the command line
RequestOf(operation, n) ==
    CASE operation.kind = "Read" ->
           [operation |-> "Read", key |-> operation.key, val |-> 0, counter |-> n]
      [] operation.kind = "Insert" ->
           [operation |-> "Insert", key |-> operation.key, val |-> operation.value,
            counter |-> n]
      [] operation.kind = "Delete" ->
           [operation |-> "Delete", key |-> operation.key, val |-> 0, counter |-> n]

\* lines 139-163: request_put of the operation at index counter returns Ok:
\* on to the next operation; after the last one, line 173: handle.join().
\* (The operation at an index is fixed when its request is put.)
MainPutOk(c) ==
    /\ spc[Main(c)] = "submit"
    /\ counter[c] < count[c]
    /\ \E operation \in operations[c] :
         /\ QueuePutOk(ReqRing(c), RequestOf(operation, counter[c]))
         /\ submitted' = [submitted EXCEPT ![c] =
                             Append(@, RequestOf(operation, counter[c]))]
    /\ counter' = [counter EXCEPT ![c] = @ + 1]
    /\ spc' = [spc EXCEPT ![Main(c)] =
                  IF counter[c] + 1 = count[c] THEN "join" ELSE "submit"]
    /\ UNCHANGED <<clients, threads, operations, count, drained, wreq, wresp, received>>

\* line 164: request_put returns Err(BufferFull): sleep 10 us
MainPutFull(c) ==
    /\ spc[Main(c)] = "submit"
    /\ counter[c] < count[c]
    /\ QueuePutFull(ReqRing(c))
    /\ spc' = [spc EXCEPT ![Main(c)] = "sleep"]
    /\ UNCHANGED <<clients, threads, operations, count, counter, drained, wreq, wresp, submitted, received>>

\* lines 161-164: the sleep is over, the loop puts the request again
MainRetry(c) ==
    /\ spc[Main(c)] = "sleep"
    /\ spc' = [spc EXCEPT ![Main(c)] = "submit"]
    /\ UNCHANGED <<rings, ringHist, clients, threads, operations, count, counter, drained, wreq, wresp,
                   submitted, received>>

\* lines 173-178: join returns once the drainer has ended; the client exits
MainExit(c) ==
    /\ spc[Main(c)] = "join"
    /\ spc[Drainer(c)] = "done"
    /\ spc' = [spc EXCEPT ![Main(c)] = "exit"]
    /\ UNCHANGED <<rings, ringHist, clients, threads, operations, count, counter, drained, wreq, wresp,
                   submitted, received>>

\* lines 118-134: the drainer has the response of its iteration: it is
\* printed; after count iterations the thread ends
Drained(c, response) ==
    /\ received' = [received EXCEPT ![c] = Append(@, response)]
    /\ drained' = [drained EXCEPT ![c] = @ + 1]
    /\ spc' = [spc EXCEPT ![Drainer(c)] =
                  IF drained[c] + 1 = count[c] THEN "done" ELSE "loop"]
    /\ UNCHANGED <<clients, threads, operations, count, counter, wreq, wresp, submitted>>

\* line 119: response_get finds a response in the ring
DrainerGet(c) ==
    /\ spc[Drainer(c)] = "loop"
    /\ drained[c] < count[c]
    /\ QueueGetNoWait(RespRing(c))
    /\ Drained(c, Front(RespRing(c)))

\* line 119: response_get finds the ring empty and blocks
DrainerWait(c) ==
    /\ spc[Drainer(c)] = "loop"
    /\ drained[c] < count[c]
    /\ QueueGetWait(RespRing(c), Drainer(c))
    /\ spc' = [spc EXCEPT ![Drainer(c)] = "wait"]
    /\ UNCHANGED <<clients, threads, operations, count, counter, drained, wreq, wresp, submitted, received>>

\* line 119: response_get returns after a signal
DrainerWake(c) ==
    /\ spc[Drainer(c)] = "wait"
    /\ QueueGetWake(RespRing(c), Drainer(c))
    /\ Drained(c, Front(RespRing(c)))

\* ------------------------------------------------------------------------
\* The server's worker threads (hashtable_shm_server/src/main.rs)
\* ------------------------------------------------------------------------
\* the worker threads the server spawned for client c (lines 60-64)
ActiveWorkers(c) == {Worker(c, i) : i \in 1..threads}

\* lines 69, 85, 101: the table call of a request, on the chain of its bucket
TableResult(request, chain) ==
    CASE request.operation = "Read" -> ReadResult(chain, request.key)
      [] request.operation = "Insert" -> AddResult(chain, request.key, request.val)
      [] request.operation = "Delete" -> DeleteResult(chain, request.key)

\* a response that never reports an error
ResponseOf_NoError(request, answer) ==
    [operation |-> request.operation, error |-> FALSE, key |-> request.key,
     val |-> CASE request.operation = "Read" -> answer.val
               [] request.operation = "Insert" -> request.val
               [] request.operation = "Delete" -> 0,
     counter |-> request.counter]

\* lines 68-117: the response to a request, from the table's answer
ResponseOf(request, answer) ==
    CASE request.operation = "Read" ->
           IF answer.err = "none"
           THEN [operation |-> "Read", error |-> FALSE, key |-> request.key,
                 val |-> answer.val, counter |-> request.counter]
           ELSE [operation |-> "Read", error |-> TRUE, key |-> request.key,
                 val |-> 0, counter |-> request.counter]
      [] request.operation = "Insert" ->
           IF answer.err = "none"
           THEN [operation |-> "Insert", error |-> FALSE, key |-> request.key,
                 val |-> request.val, counter |-> request.counter]
           ELSE [operation |-> "Insert", error |-> TRUE, key |-> request.key,
                 val |-> request.val, counter |-> request.counter]
      [] request.operation = "Delete" ->
           IF answer.err = "none"
           THEN [operation |-> "Delete", error |-> FALSE, key |-> request.key,
                 val |-> 0, counter |-> request.counter]
           ELSE [operation |-> "Delete", error |-> TRUE, key |-> request.key,
                 val |-> 0, counter |-> request.counter]

\* line 65: request_get finds a request in the ring
WorkerGet(c, w) ==
    /\ spc[w] = "loop"
    /\ QueueGetNoWait(ReqRing(c))
    /\ wreq' = [wreq EXCEPT ![w] = Front(ReqRing(c))]
    /\ spc' = [spc EXCEPT ![w] = "serve"]
    /\ UNCHANGED <<tableVars, clients, threads, operations, count, counter, drained, wresp, submitted, received>>

\* line 65: request_get finds the ring empty and blocks
WorkerWait(c, w) ==
    /\ spc[w] = "loop"
    /\ QueueGetWait(ReqRing(c), w)
    /\ spc' = [spc EXCEPT ![w] = "wait"]
    /\ UNCHANGED <<tableVars, clients, threads, operations, count, counter, drained, wreq, wresp,
                   submitted, received>>

\* line 65: request_get returns after a signal
WorkerWake(c, w) ==
    /\ spc[w] = "wait"
    /\ QueueGetWake(ReqRing(c), w)
    /\ wreq' = [wreq EXCEPT ![w] = Front(ReqRing(c))]
    /\ spc' = [spc EXCEPT ![w] = "serve"]
    /\ UNCHANGED <<tableVars, clients, threads, operations, count, counter, drained, wresp, submitted, received>>

\* lines 68-117: the table call of the request and the response built from
\* its answer
WorkerServe(c, w) ==
    LET request == wreq[w]
        pos == hash(request.key)
        answer == TableResult(request, buckets[pos])
    IN  /\ spc[w] = "serve"
        /\ rwlock[pos].writer = NoThread
        /\ rwlock[pos].readers = {}
        /\ buckets' = [buckets EXCEPT ![pos] = answer.chain]
        /\ wresp' = [wresp EXCEPT ![w] = ResponseOf(request, answer)]
        /\ wreq' = [wreq EXCEPT ![w] = ZeroRequest]
        /\ spc' = [spc EXCEPT ![w] = "respond"]
        /\ UNCHANGED <<rings, ringHist, size, hasher, rwlock, tpc, targ, tres, absMap,
                       absRes, clients, threads, operations, count, counter, drained, submitted, received>>

\* lines 118-120: response_put returns Ok: back to the head of the loop
WorkerPutOk(c, w) ==
    /\ spc[w] = "respond"
    /\ QueuePutOk(RespRing(c), wresp[w])
    /\ wresp' = [wresp EXCEPT ![w] = ZeroResponse]
    /\ spc' = [spc EXCEPT ![w] = "loop"]
    /\ UNCHANGED <<tableVars, clients, threads, operations, count, counter, drained, wreq, submitted, received>>

\* lines 121-123: response_put returns Err(BufferFull): sleep 10 us
WorkerPutFull(c, w) ==
    /\ spc[w] = "respond"
    /\ QueuePutFull(RespRing(c))
    /\ spc' = [spc EXCEPT ![w] = "sleep"]
    /\ UNCHANGED <<tableVars, clients, threads, operations, count, counter, drained, wreq, wresp,
                   submitted, received>>

\* lines 118-123: the sleep is over, the loop puts the response again
WorkerRetry(c, w) ==
    /\ spc[w] = "sleep"
    /\ spc' = [spc EXCEPT ![w] = "respond"]
    /\ UNCHANGED <<rings, ringHist, tableVars, clients, threads, operations, count, counter, drained, wreq,
                   wresp, submitted, received>>

\* ------------------------------------------------------------------------
\* The segments: ShmQueue::new and ShmQueue::stop (shm_ipc.rs), as the
\* server's and the client's main call them
\* ------------------------------------------------------------------------
RingsOf(c) == {ReqRing(c), RespRing(c)}

\* the clients the server was started for: for client_id in 0..args.clients
ActiveClients == 0..(clients - 1)

\* a server-mode open without O_EXCL: an existing name is opened and made
\* anew
ServerOpen_Reopens ==
    /\ spc[ServerMain] = "new_open"
    /\ names' = names \cup {client_id}
    /\ sized' = sized \ {client_id}
    /\ initialised' = initialised \ RingsOf(client_id)
    /\ rings' = [r \in RingIds |->
                    IF r \in RingsOf(client_id) THEN ZeroRingBuffer(r) ELSE rings[r]]
    /\ created' = created \cup {client_id}
    /\ spc' = [spc EXCEPT ![ServerMain] = "new_truncate"]
    /\ UNCHANGED <<client_id, ipcs, touched>>

\* shm_ipc.rs:96, server: shm_open(CREATE | EXCL | RDWR) makes the name;
\* the new object has length 0
ServerOpen ==
    /\ spc[ServerMain] = "new_open"
    /\ client_id \notin names
    /\ names' = names \cup {client_id}
    /\ sized' = sized \ {client_id}
    /\ initialised' = initialised \ RingsOf(client_id)
    /\ rings' = [r \in RingIds |->
                    IF r \in RingsOf(client_id) THEN ZeroRingBuffer(r) ELSE rings[r]]
    /\ created' = created \cup {client_id}
    /\ spc' = [spc EXCEPT ![ServerMain] = "new_truncate"]
    /\ UNCHANGED <<client_id, ipcs, touched>>

\* shm_ipc.rs:96, server: the name exists: Err(Io). Server main.rs:50-57:
\* the failure is sent as the shutdown event and the loop is left
ServerOpenFails ==
    /\ spc[ServerMain] = "new_open"
    /\ client_id \in names
    /\ spc' = [spc EXCEPT ![ServerMain] = "serving"]
    /\ UNCHANGED <<rings, names, sized, initialised, client_id, ipcs, created, touched>>

\* shm_ipc.rs:98-99, 101-111, 113-115: ftruncate, mmap or buffer.init()
\* (pthread_mutex_init, pthread_cond_init and their attribute calls, lines
\* 187-230) returns an error: `?` returns it from new(), after shm_open has
\* made the name. Server main.rs:50-57: as for any Err of new(), the
\* failure is sent as the shutdown event and the loop is left; no ShmQueue
\* of this client was made, so none is pushed to ipcs.
ServerNewFails ==
    /\ spc[ServerMain] \in {"new_truncate", "new_mmap", "request_lock", "request_cond",
                            "response_lock", "response_cond"}
    /\ spc' = [spc EXCEPT ![ServerMain] = "serving"]
    /\ UNCHANGED <<rings, names, sized, initialised, client_id, ipcs, created, touched>>

\* shm_ipc.rs:98-99: ftruncate gives the object its size, zero-filled
ServerTruncate ==
    /\ spc[ServerMain] = "new_truncate"
    /\ sized' = sized \cup {client_id}
    /\ spc' = [spc EXCEPT ![ServerMain] = "new_mmap"]
    /\ UNCHANGED <<rings, names, initialised, client_id, ipcs, created, touched>>

\* shm_ipc.rs:101-111: mmap; line 113: buffer.init() is entered
ServerMmap ==
    /\ spc[ServerMain] = "new_mmap"
    /\ spc' = [spc EXCEPT ![ServerMain] = "request_lock"]
    /\ UNCHANGED <<rings, names, sized, initialised, client_id, ipcs, created, touched>>

\* RingBuffer::init, line 237: setup_lock (lines 187-207): pthread_mutex_init
ServerSetupLock(kind) ==
    /\ spc[ServerMain] = kind \o "_lock"
    /\ rings' = [rings EXCEPT ![<<client_id, kind>>].lock_init = TRUE,
                              ![<<client_id, kind>>].lock = NoThread]
    /\ spc' = [spc EXCEPT ![ServerMain] = kind \o "_cond"]
    /\ UNCHANGED <<names, sized, initialised, client_id, ipcs, created, touched>>

\* RingBuffer::init, line 238: setup_cond (lines 210-230): pthread_cond_init
ServerSetupCond(kind) ==
    /\ spc[ServerMain] = kind \o "_cond"
    /\ rings' = [rings EXCEPT ![<<client_id, kind>>].cond_init = TRUE,
                              ![<<client_id, kind>>].waiters = {}]
    /\ spc' = [spc EXCEPT ![ServerMain] = kind \o "_pos"]
    /\ UNCHANGED <<names, sized, initialised, client_id, ipcs, created, touched>>

\* RingBuffer::init, lines 239-241: both indices are set to 0. After the
\* request ring the response ring is initialised (lines 179-180); after
\* that new() returns the ShmQueue
ServerInitPos(kind) ==
    /\ spc[ServerMain] = kind \o "_pos"
    /\ rings' = [rings EXCEPT ![<<client_id, kind>>].read_pos = 0,
                              ![<<client_id, kind>>].write_pos = 0]
    /\ initialised' = initialised \cup {<<client_id, kind>>}
    /\ spc' = [spc EXCEPT ![ServerMain] =
                  IF kind = "request" THEN "response_lock" ELSE "spawn"]
    /\ UNCHANGED <<names, sized, client_id, ipcs, created, touched>>

\* server main.rs:59-66 and 48: the ShmQueue is kept, the workers of the
\* client are spawned, the loop goes to the next client and, after the
\* last one, to the wait for the shutdown event (line 136). (The workers'
\* steps are those of SpecSys; they are not taken in SpecShm.)
ServerSpawn ==
    /\ spc[ServerMain] = "spawn"
    /\ ipcs' = ipcs \cup {client_id}
    /\ client_id' = client_id + 1
    /\ spc' = [spc EXCEPT ![ServerMain] =
                  IF client_id + 1 = clients THEN "serving" ELSE "new_open"]
    /\ UNCHANGED <<rings, names, sized, initialised, created, touched>>

\* server main.rs:136-144: the shutdown event arrives (Ctrl-C, or the
\* failure sent at line 53); stop() of every ShmQueue kept: shm_ipc.rs:
\* 140-146, the server's handle unlinks its name
ServerShutdown ==
    /\ spc[ServerMain] = "serving"
    /\ names' = names \ ipcs
    /\ spc' = [spc EXCEPT ![ServerMain] = "exited"]
    /\ UNCHANGED <<rings, sized, initialised, client_id, ipcs, created, touched>>

\* shm_ipc.rs:96, client: shm_open(EXCL | RDWR) of an existing name
ClientOpen(c) ==
    /\ spc[Main(c)] = "start"
    /\ c \in names
    /\ spc' = [spc EXCEPT ![Main(c)] = "new_mmap"]
    /\ UNCHANGED <<rings, ringHist, shmVars>>

\* shm_ipc.rs:96, client: no such name: Err(Io); client main.rs:109-112:
\* exit with failure
ClientOpenFails(c) ==
    /\ spc[Main(c)] = "start"
    /\ c \notin names
    /\ spc' = [spc EXCEPT ![Main(c)] = "failed"]
    /\ UNCHANGED <<rings, ringHist, shmVars>>

\* shm_ipc.rs:101-121, client: mmap, no init, Ok(ShmQueue). (mmap of an
\* object that has no size yet succeeds.)
ClientMmap(c) ==
    /\ spc[Main(c)] = "new_mmap"
    /\ spc' = [spc EXCEPT ![Main(c)] = "attached"]
    /\ UNCHANGED <<rings, ringHist, shmVars>>

\* client main.rs:162: the first request_put, on an initialised ring
ClientPut(c) ==
    /\ spc[Main(c)] = "attached"
    /\ ReqRing(c) \in initialised
    /\ \E operation \in operations[c] :
         QueuePutOk(ReqRing(c), RequestOf(operation, 0))
    /\ spc' = [spc EXCEPT ![Main(c)] = "put_done"]
    /\ UNCHANGED shmVars

\* client main.rs:162: the first request_put, on a ring whose init has not
\* returned. Without the size the access faults (SIGBUS). With it, the
\* call uses a mutex or a condition variable that is not initialised, or
\* indices the server is about to write: undefined behaviour, which may
\* crash the client or let the put run on the zero-filled ring.
ClientPutEarly(c) ==
    /\ spc[Main(c)] = "attached"
    /\ ReqRing(c) \notin initialised
    /\ touched' = touched \cup {c}
    /\ \/ /\ spc' = [spc EXCEPT ![Main(c)] = "crashed"]
          /\ UNCHANGED <<rings, ringHist>>
       \/ /\ c \in sized
          /\ spc' = [spc EXCEPT ![Main(c)] = "put_done"]
          /\ \E operation \in operations[c] :
               /\ rings' = [rings EXCEPT ![ReqRing(c)] =
                               Stored(@, RequestOf(operation, 0), NoThread)]
               /\ RecordPut(ReqRing(c), RequestOf(operation, 0))
    /\ UNCHANGED <<names, sized, initialised, client_id, ipcs, created>>

\* ------------------------------------------------------------------------
\* SpecRing: one initialised ring, used by threads that call put and get
\* ------------------------------------------------------------------------
\* The request of the test of shm_ipc.rs (lines 322-327). The ring never
\* looks into its elements (T: Clone), so one value serves for every put; it
\* differs from the all-zero record of a slot never written.
TestRequest == [operation |-> "Insert", key |-> 1, val |-> 1, counter |-> 0]

\* no server or client thread is running
InitSysIdle ==
    /\ threads = 0
    /\ operations = [c \in ClientIds |-> {}]
    /\ count = [c \in ClientIds |-> 0]
    /\ spc = [t \in Threads |-> "none"]
    /\ counter = [c \in ClientIds |-> 0]
    /\ drained = [c \in ClientIds |-> 0]
    /\ wreq = [t \in Threads |-> ZeroRequest]
    /\ wresp = [t \in Threads |-> ZeroResponse]
    /\ submitted = [c \in ClientIds |-> <<>>]
    /\ received = [c \in ClientIds |-> <<>>]

\* the segment of every client the server was started for exists and is
\* initialised, the server waits for its shutdown event
InitShmServing ==
    /\ names = ActiveClients
    /\ sized = ActiveClients
    /\ initialised = UNION {RingsOf(c) : c \in ActiveClients}
    /\ client_id = clients
    /\ ipcs = ActiveClients
    /\ created = ActiveClients
    /\ touched = {}

\* no thread is in a ring call, nothing was put or taken
InitRingCalls ==
    /\ rpc = [t \in Threads |-> "none"]
    /\ rarg = [t \in Threads |-> NoArg]
    /\ rres = [t \in Threads |-> NoRes]
    /\ pending = [r \in RingIds |-> <<>>]
    /\ live = [r \in RingIds |-> {}]
    /\ nPut = [r \in RingIds |-> 0]
    /\ nGot = [r \in RingIds |-> 0]
    /\ lastGet = [r \in RingIds |->
           [data |-> ZeroElement(r), fresh |-> TRUE, inorder |-> TRUE]]

InitRings ==
    /\ InitShmServing
    /\ rings = [r \in RingIds |->
                   IF r \in initialised THEN InitRingBuffer(r) ELSE ZeroRingBuffer(r)]
    /\ InitRingCalls

InitRing ==
    /\ clients = 1
    /\ InitRings
    /\ consumers \in SUBSET RingUsers
    /\ InitTable(1, [k \in Keys |-> 0])
    /\ nCalls = 0
    /\ tlog = <<>>
    /\ InitSysIdle

\* a thread calls request_put (shm_ipc.rs:155-158)
UserCallPut(t) ==
    /\ rpc[t] = "none"
    /\ nPut[TestRing] + Cardinality({u \in RingUsers : rpc[u] \in PutPositions}) < MaxPuts
    /\ rarg' = [rarg EXCEPT ![t] = [ring |-> TestRing, data |-> TestRequest]]
    /\ rpc' = [rpc EXCEPT ![t] = "put_lock"]
    /\ UNCHANGED <<rings, rres, ringHist, consumers>>

\* a thread calls request_get (shm_ipc.rs:160-163)
UserCallGet(t) ==
    /\ rpc[t] = "none"
    /\ t \in consumers
    /\ nGot[TestRing] + Cardinality({u \in RingUsers : rpc[u] \in GetPositions}) < MaxGets
    /\ rarg' = [rarg EXCEPT ![t] = [ring |-> TestRing, data |-> ZeroRequest]]
    /\ rpc' = [rpc EXCEPT ![t] = "get_lock"]
    /\ UNCHANGED <<rings, rres, ringHist, consumers>>

\* the call returned Ok: the thread drops the value
UserReturn(t) ==
    /\ rpc[t] = "ret"
    /\ rres[t].ok
    /\ rpc' = [rpc EXCEPT ![t] = "none"]
    /\ rarg' = [rarg EXCEPT ![t] = NoArg]
    /\ rres' = [rres EXCEPT ![t] = NoRes]
    /\ UNCHANGED <<rings, ringHist, ringUserVars>>

\* the call returned Err(BufferFull): the thread puts the same request again,
\* as the callers of put do (server main.rs:118-129, client main.rs:161-170)
UserRetry(t) ==
    /\ rpc[t] = "ret"
    /\ ~rres[t].ok
    /\ rpc' = [rpc EXCEPT ![t] = "put_lock"]
    /\ UNCHANGED <<rings, rarg, rres, ringHist, ringUserVars>>

\* what SpecRing leaves alone
ringFrame == <<tableVars, tableUserVars, sysVars, shmVars>>

NextRing ==
    \/ \E t \in RingUsers : UserCallPut(t) /\ UNCHANGED ringFrame
    \/ \E t \in RingUsers : UserCallGet(t) /\ UNCHANGED ringFrame
    \/ \E t \in RingUsers : UserReturn(t) /\ UNCHANGED ringFrame
    \/ \E t \in RingUsers : UserRetry(t) /\ UNCHANGED ringFrame
    \/ \E t \in RingUsers : RingPutLock(t) /\ UNCHANGED <<ringUserVars, ringFrame>>
    \/ \E t \in RingUsers : RingPutFull(t) /\ UNCHANGED <<ringUserVars, ringFrame>>
    \/ \E t \in RingUsers : RingPutStore(t) /\ UNCHANGED <<ringUserVars, ringFrame>>
    \/ \E t \in RingUsers : RingGetLock(t) /\ UNCHANGED <<ringUserVars, ringFrame>>
    \/ \E t \in RingUsers : RingGetWait(t) /\ UNCHANGED <<ringUserVars, ringFrame>>
    \/ \E t \in RingUsers : RingGetNoWait(t) /\ UNCHANGED <<ringUserVars, ringFrame>>
    \/ \E t \in RingUsers : RingGetWake(t) /\ UNCHANGED <<ringUserVars, ringFrame>>
    \/ \E t \in RingUsers : RingGetTake(t) /\ UNCHANGED <<ringUserVars, ringFrame>>

SpecRing == InitRing /\ [][NextRing]_vars

\* ------------------------------------------------------------------------
\* SpecTable: one table of 1..MaxSize buckets, used by threads that call
\* add, read and delete with any keys and values
\* ------------------------------------------------------------------------
\* DefaultHasher is a fixed function of the key; the model takes every
\* function from the keys to the residues the bucket count can tell apart
InitTableSpec ==
    /\ \E n \in 1..MaxSize : \E h \in [Keys -> 0..(n - 1)] : InitTable(n, h)
    /\ nCalls = 0
    /\ tlog = <<>>
    /\ clients = 1
    /\ InitRings
    /\ consumers = {}
    /\ InitSysIdle

\* a thread calls add, read or delete
TableUserCall(t) ==
    /\ tpc[t] = "none"
    /\ nCalls < MaxCalls
    /\ \E op \in {"add", "read", "delete"}, key \in Keys, val \in Vals :
         /\ op # "add" => val = 1
         /\ targ' = [targ EXCEPT ![t] = TableCallArg(op, key, val)]
         /\ tpc' = [tpc EXCEPT ![t] = TableEntry(op)]
    /\ nCalls' = nCalls + 1
    /\ UNCHANGED <<size, hasher, buckets, rwlock, tres, absMap, absRes>>

\* the call returns to the thread, which drops the result
TableUserReturn(t) ==
    /\ tpc[t] = "ret"
    /\ tpc' = [tpc EXCEPT ![t] = "none"]
    /\ targ' = [targ EXCEPT ![t] = NoTArg]
    /\ tres' = [tres EXCEPT ![t] = NoTRes]
    /\ absRes' = [absRes EXCEPT ![t] = NoTRes]
    /\ UNCHANGED <<size, hasher, buckets, rwlock, absMap, nCalls>>

\* what SpecTable leaves alone
tableFrame == <<ringVars, ringUserVars, sysVars, shmVars>>

NextTable ==
    \/ \E t \in TableUsers : TableUserCall(t) /\ UNCHANGED <<tlog, tableFrame>>
    \/ \E t \in TableUsers : TableUserReturn(t) /\ UNCHANGED <<tlog, tableFrame>>
    \/ \E t \in TableUsers : AddLock(t) /\ UNCHANGED <<tableUserVars, tableFrame>>
    \/ \E t \in TableUsers : AddExists(t) /\ UNCHANGED <<tableUserVars, tableFrame>>
    \/ \E t \in TableUsers : AddAbsent(t) /\ UNCHANGED <<tableUserVars, tableFrame>>
    \/ \E t \in TableUsers : AddPush(t) /\ UNCHANGED <<tableUserVars, tableFrame>>
    \/ \E t \in TableUsers : ReadLock(t) /\ UNCHANGED <<tableUserVars, tableFrame>>
    \/ \E t \in TableUsers : ReadFind(t) /\ UNCHANGED <<tableUserVars, tableFrame>>
    \/ \E t \in TableUsers : DeleteLock(t) /\ UNCHANGED <<tableUserVars, tableFrame>>
    \/ \E t \in TableUsers : DeleteMissing(t) /\ UNCHANGED <<tableUserVars, tableFrame>>
    \/ \E t \in TableUsers : DeleteFound(t) /\ UNCHANGED <<tableUserVars, tableFrame>>
    \/ \E t \in TableUsers : DeleteRemove(t) /\ UNCHANGED <<tableUserVars, tableFrame>>

SpecTable == InitTableSpec /\ [][NextTable]_vars


\* ------------------------------------------------------------------------
\* SpecTableSeq: one thread calls add, read and delete one after the
\* other, as the tests of hashtable.rs do, on a table of 1..MaxSize buckets
\* ------------------------------------------------------------------------
SeqUser == <<"tuser", 0, 1>>

\* the thread calls add, read or delete; the call is written to the log
\* with the value the table holds for the key at that moment
SeqUserCall ==
    /\ tpc[SeqUser] = "none"
    /\ Len(tlog) < MaxSeqCalls
    /\ \E op \in {"add", "read", "delete"}, key \in Keys, val \in Vals :
         /\ op # "add" => val = 1
         /\ targ' = [targ EXCEPT ![SeqUser] = TableCallArg(op, key, val)]
         /\ tpc' = [tpc EXCEPT ![SeqUser] = TableEntry(op)]
         /\ tlog' = Append(tlog, [op |-> op, key |-> key, val |-> val,
                                  was |-> ChainFind(buckets[hash(key)], key),
                                  err |-> "pending", out |-> 0])
    /\ UNCHANGED <<size, hasher, buckets, rwlock, tres, absMap, absRes, nCalls>>

\* the call returns: its result is written to the log
SeqUserReturn ==
    /\ tpc[SeqUser] = "ret"
    /\ tlog' = [tlog EXCEPT ![Len(tlog)].err = tres[SeqUser].err,
                            ![Len(tlog)].out = tres[SeqUser].val]
    /\ tpc' = [tpc EXCEPT ![SeqUser] = "none"]
    /\ targ' = [targ EXCEPT ![SeqUser] = NoTArg]
    /\ tres' = [tres EXCEPT ![SeqUser] = NoTRes]
    /\ absRes' = [absRes EXCEPT ![SeqUser] = NoTRes]
    /\ UNCHANGED <<size, hasher, buckets, rwlock, absMap, nCalls>>

NextTableSeq ==
    \/ SeqUserCall /\ UNCHANGED tableFrame
    \/ SeqUserReturn /\ UNCHANGED tableFrame
    \/ AddLock(SeqUser) /\ UNCHANGED <<tableUserVars, tableFrame>>
    \/ AddExists(SeqUser) /\ UNCHANGED <<tableUserVars, tableFrame>>
    \/ AddAbsent(SeqUser) /\ UNCHANGED <<tableUserVars, tableFrame>>
    \/ AddPush(SeqUser) /\ UNCHANGED <<tableUserVars, tableFrame>>
    \/ ReadLock(SeqUser) /\ UNCHANGED <<tableUserVars, tableFrame>>
    \/ ReadFind(SeqUser) /\ UNCHANGED <<tableUserVars, tableFrame>>
    \/ DeleteLock(SeqUser) /\ UNCHANGED <<tableUserVars, tableFrame>>
    \/ DeleteMissing(SeqUser) /\ UNCHANGED <<tableUserVars, tableFrame>>
    \/ DeleteFound(SeqUser) /\ UNCHANGED <<tableUserVars, tableFrame>>
    \/ DeleteRemove(SeqUser) /\ UNCHANGED <<tableUserVars, tableFrame>>

SpecTableSeq == InitTableSpec /\ [][NextTableSeq]_vars

\* ------------------------------------------------------------------------
\* SpecSys: a server started with bucket_size 1 and 1..MaxWorkers workers
\* per client, and one client with 1..MaxOps operations, from the point
\* where the server has created the client's segment and spawned its
\* workers and the client has attached and spawned its drainer
\* ------------------------------------------------------------------------
\* the server's workers and the clients' threads at the point where the
\* server has spawned the workers of every client and every client has
\* attached and spawned its drainer
InitThreads ==
    /\ spc = [t \in Threads |->
                 IF \E c \in ActiveClients : t = Main(c) THEN "submit"
                 ELSE IF \E c \in ActiveClients : t = Drainer(c) THEN "loop"
                 ELSE IF \E c \in ActiveClients : t \in ActiveWorkers(c) THEN "loop"
                 ELSE IF t = ServerMain THEN "serving"
                 ELSE "none"]
    /\ counter = [c \in ClientIds |-> 0]
    /\ drained = [c \in ClientIds |-> 0]
    /\ wreq = [t \in Threads |-> ZeroRequest]
    /\ wresp = [t \in Threads |-> ZeroResponse]
    /\ submitted = [c \in ClientIds |-> <<>>]
    /\ received = [c \in ClientIds |-> <<>>]

InitSys ==
    /\ clients = 1
    /\ InitRings
    /\ consumers = {}
    /\ InitTable(1, [k \in Keys |-> 0])
    /\ nCalls = 0
    /\ tlog = <<>>
    /\ threads \in 1..MaxWorkers
    /\ operations = [c \in ClientIds |-> IF c \in ActiveClients THEN ClientOperations ELSE {}]
    /\ count \in [ClientIds -> 0..MaxOps]
    /\ \A c \in ClientIds : count[c] = 0 <=> c \notin ActiveClients
    /\ InitThreads

\* what the client's and the workers' steps leave alone
clientFrame == <<rpc, rarg, rres, ringUserVars, tableVars, tableUserVars, shmVars>>
workerFrame == <<rpc, rarg, rres, ringUserVars, tableUserVars, shmVars>>

NextSys ==
    \/ \E c \in ClientIds : MainPutOk(c) /\ UNCHANGED clientFrame
    \/ \E c \in ClientIds : MainPutFull(c) /\ UNCHANGED clientFrame
    \/ \E c \in ClientIds : MainRetry(c) /\ UNCHANGED clientFrame
    \/ \E c \in ClientIds : MainExit(c) /\ UNCHANGED clientFrame
    \/ \E c \in ClientIds : DrainerGet(c) /\ UNCHANGED clientFrame
    \/ \E c \in ClientIds : DrainerWait(c) /\ UNCHANGED clientFrame
    \/ \E c \in ClientIds : DrainerWake(c) /\ UNCHANGED clientFrame
    \/ \E c \in ClientIds : \E w \in ActiveWorkers(c) : WorkerGet(c, w) /\ UNCHANGED workerFrame
    \/ \E c \in ClientIds : \E w \in ActiveWorkers(c) : WorkerWait(c, w) /\ UNCHANGED workerFrame
    \/ \E c \in ClientIds : \E w \in ActiveWorkers(c) : WorkerWake(c, w) /\ UNCHANGED workerFrame
    \/ \E c \in ClientIds : \E w \in ActiveWorkers(c) : WorkerServe(c, w) /\ UNCHANGED workerFrame
    \/ \E c \in ClientIds : \E w \in ActiveWorkers(c) : WorkerPutOk(c, w) /\ UNCHANGED workerFrame
    \/ \E c \in ClientIds : \E w \in ActiveWorkers(c) : WorkerPutFull(c, w) /\ UNCHANGED workerFrame
    \/ \E c \in ClientIds : \E w \in ActiveWorkers(c) : WorkerRetry(c, w) /\ UNCHANGED workerFrame

SpecSys == InitSys /\ [][NextSys]_vars

\* the steps of one thread, for the scheduler: a thread that can run is
\* run in the end. A thread blocked in pthread_cond_wait cannot run until
\* it is signalled; a thread asleep after BufferFull can (its sleep ends).
MainStep(c) ==
    (MainPutOk(c) \/ MainPutFull(c) \/ MainRetry(c) \/ MainExit(c))
    /\ UNCHANGED clientFrame

DrainerStep(c) ==
    (DrainerGet(c) \/ DrainerWait(c) \/ DrainerWake(c)) /\ UNCHANGED clientFrame

WorkerStep(c, w) ==
    /\ w \in ActiveWorkers(c)
    /\ \/ WorkerGet(c, w) \/ WorkerWait(c, w) \/ WorkerWake(c, w) \/ WorkerServe(c, w)
       \/ WorkerPutOk(c, w) \/ WorkerPutFull(c, w) \/ WorkerRetry(c, w)
    /\ UNCHANGED workerFrame

FairSys ==
    \A c \in ClientIds :
        /\ WF_vars(MainStep(c))
        /\ WF_vars(DrainerStep(c))
        /\ \A w \in Workers(c) : WF_vars(WorkerStep(c, w))

\* the client and the server's workers under a fair scheduler
SpecSysFair == InitSys /\ [][NextSys]_vars /\ FairSys

\* ------------------------------------------------------------------------
\* SpecTwo: a server started with bucket_size 1, two clients and one
\* worker per client; each client has MaxOps operations, inserts and reads
\* of a key of its own. With one bucket the entries of both clients share
\* a chain.
\* ------------------------------------------------------------------------
\* the key of client c's command line: 1 for client 0, 2 for client 1
OwnKey(c) == c + 1

InitTwo ==
    /\ clients = MaxClients
    /\ InitRings
    /\ consumers = {}
    /\ InitTable(1, [k \in Keys |-> 0])
    /\ nCalls = 0
    /\ tlog = <<>>
    /\ threads = 1
    /\ operations = [c \in ClientIds |->
                        {op \in OperationsOn({OwnKey(c)}) : op.kind \in {"Insert", "Read"}}]
    /\ count = [c \in ClientIds |-> MaxOps]
    /\ InitThreads

\* With MaxOps requests, fewer than the BUFFER_SIZE - 1 a ring can hold, and
\* one worker per ring no put finds its ring full: the BufferFull branches
\* of the client and of the workers, which SpecSys takes, have no step here.
NextTwo ==
    \/ \E c \in ClientIds : MainPutOk(c) /\ UNCHANGED clientFrame
    \/ \E c \in ClientIds : MainExit(c) /\ UNCHANGED clientFrame
    \/ \E c \in ClientIds : DrainerGet(c) /\ UNCHANGED clientFrame
    \/ \E c \in ClientIds : DrainerWait(c) /\ UNCHANGED clientFrame
    \/ \E c \in ClientIds : DrainerWake(c) /\ UNCHANGED clientFrame
    \/ \E c \in ClientIds : \E w \in ActiveWorkers(c) : WorkerGet(c, w) /\ UNCHANGED workerFrame
    \/ \E c \in ClientIds : \E w \in ActiveWorkers(c) : WorkerWait(c, w) /\ UNCHANGED workerFrame
    \/ \E c \in ClientIds : \E w \in ActiveWorkers(c) : WorkerWake(c, w) /\ UNCHANGED workerFrame
    \/ \E c \in ClientIds : \E w \in ActiveWorkers(c) : WorkerServe(c, w) /\ UNCHANGED workerFrame
    \/ \E c \in ClientIds : \E w \in ActiveWorkers(c) : WorkerPutOk(c, w) /\ UNCHANGED workerFrame

SpecTwo == InitTwo /\ [][NextTwo]_vars

\* ------------------------------------------------------------------------
\* SpecShm: a server and the client processes start, in any order. A name
\* may be left over from a server that ended without its shutdown: its
\* segment has its size and was initialised by that server.
\* ------------------------------------------------------------------------
InitShm ==
    /\ clients \in 1..MaxClients
    /\ names \in SUBSET ClientIds
    /\ sized = names
    /\ initialised = UNION {RingsOf(c) : c \in names}
    /\ rings = [r \in RingIds |->
                   IF r \in initialised THEN InitRingBuffer(r) ELSE ZeroRingBuffer(r)]
    /\ client_id = 0
    /\ ipcs = {}
    /\ created = {}
    /\ touched = {}
    /\ InitRingCalls
    /\ consumers = {}
    /\ InitTable(1, [k \in Keys |-> 0])
    /\ nCalls = 0
    /\ tlog = <<>>
    /\ threads = 1
    /\ operations = [c \in ClientIds |-> ClientOperations]
    /\ count = [c \in ClientIds |-> 1]
    /\ spc = [t \in Threads |->
                 IF t = ServerMain THEN "new_open"
                 ELSE IF \E c \in ClientIds : t = Main(c) THEN "start"
                 ELSE "none"]
    /\ counter = [c \in ClientIds |-> 0]
    /\ drained = [c \in ClientIds |-> 0]
    /\ wreq = [t \in Threads |-> ZeroRequest]
    /\ wresp = [t \in Threads |-> ZeroResponse]
    /\ submitted = [c \in ClientIds |-> <<>>]
    /\ received = [c \in ClientIds |-> <<>>]

\* what the steps of SpecShm leave alone
shmFrame ==
    <<rpc, rarg, rres, ringUserVars, tableVars, tableUserVars,
      clients, threads, operations, count, counter, drained, wreq, wresp, submitted, received>>

NextShm ==
    \/ ServerOpen /\ UNCHANGED <<ringHist, shmFrame>>
    \/ ServerOpenFails /\ UNCHANGED <<ringHist, shmFrame>>
    \/ ServerNewFails /\ UNCHANGED <<ringHist, shmFrame>>
    \/ ServerTruncate /\ UNCHANGED <<ringHist, shmFrame>>
    \/ ServerMmap /\ UNCHANGED <<ringHist, shmFrame>>
    \/ \E kind \in {"request", "response"} :
         ServerSetupLock(kind) /\ UNCHANGED <<ringHist, shmFrame>>
    \/ \E kind \in {"request", "response"} :
         ServerSetupCond(kind) /\ UNCHANGED <<ringHist, shmFrame>>
    \/ \E kind \in {"request", "response"} :
         ServerInitPos(kind) /\ UNCHANGED <<ringHist, shmFrame>>
    \/ ServerSpawn /\ UNCHANGED <<ringHist, shmFrame>>
    \/ ServerShutdown /\ UNCHANGED <<ringHist, shmFrame>>
    \/ \E c \in ClientIds : ClientOpen(c) /\ UNCHANGED shmFrame
    \/ \E c \in ClientIds : ClientOpenFails(c) /\ UNCHANGED shmFrame
    \/ \E c \in ClientIds : ClientMmap(c) /\ UNCHANGED shmFrame
    \/ \E c \in ClientIds : ClientPut(c) /\ UNCHANGED shmFrame
    \/ \E c \in ClientIds : ClientPutEarly(c) /\ UNCHANGED shmFrame

SpecShm == InitShm /\ [][NextShm]_vars

\* ------------------------------------------------------------------------
\* Claims
\* ------------------------------------------------------------------------
\* number of elements between read_pos and write_pos
Occupancy(rb) == (rb.write_pos + BUFFER_SIZE - rb.read_pos) % BUFFER_SIZE

\* C3: on every ring, after every completed put or get, the number of
\* elements between read_pos and write_pos (mod C) is the number of
\* successful puts minus the number of completed gets since init.
C3_OccupancyIsPutsMinusGets ==
    \A r \in RingIds : Occupancy(rings[r]) = nPut[r] - nGot[r]

\* C4: per ring, get returns the elements in the order their puts succeeded,
\* none skipped or repeated: each get returns the oldest element put and not
\* yet returned.
C4_GetReturnsOldestPut ==
    \A r \in RingIds : lastGet[r].inorder

\* the entries of the whole table holding key k, as <<bucket, index>> pairs
EntriesOf(k) ==
    {e \in UNION {{<<b, i>> : i \in 1..Len(buckets[b])} : b \in DOMAIN buckets} :
        buckets[e[1]][e[2]].key = k}

\* C8: for every bucket count and any interleaving of add, read and delete
\* by several threads, no bucket chain holds two entries with equal keys.
C8_NoDuplicateKeyInChain ==
    \A b \in DOMAIN buckets :
        \A i, j \in 1..Len(buckets[b]) :
            i # j => buckets[b][i].key # buckets[b][j].key

\* C8 witness: an add of a key already present was rejected in a bucket
\* whose chain holds two entries.
C8_Witness ==
    \E t \in TableUsers :
        /\ tpc[t] = "ret" /\ targ[t].op = "add" /\ tres[t].err = "KeyExists"
        /\ Len(buckets[targ[t].pos]) >= 2

\* C9: the result every call of add, read or delete returns is the answer
\* of a key->value map to the calls taken one at a time, each at a point
\* between its invocation and its return.
C9_Linearisable ==
    \A t \in Threads : tpc[t] = "ret" => tres[t] = absRes[t]

\* C9 witness: two adds of the same key are in flight together; one has
\* succeeded and the other has been refused.
C9_Witness ==
    \E t1, t2 \in TableUsers :
        /\ t1 # t2
        /\ tpc[t1] = "ret" /\ targ[t1].op = "add" /\ tres[t1].err = "none"
        /\ tpc[t2] = "ret" /\ targ[t2].op = "add" /\ tres[t2].err = "KeyExists"
        /\ targ[t1].key = targ[t2].key

\* C10: add(k, v) on a table that holds k fails with KeyExists and leaves
\* the table as it was: k keeps its value, and no entry is added, removed
\* or moved.
C10_AddExistingKeyFails ==
    [][\A t \in Threads :
          (/\ tpc[t] = "add_check"
           /\ tpc'[t] # "add_check"
           /\ EntriesOf(targ[t].key) # {})
          => (/\ tpc'[t] = "ret"
              /\ tres'[t].err = "KeyExists"
              /\ buckets' = buckets)]_vars

\* C10 witness: an add was refused for a key whose stored value differs
\* from the value the add carried.
C10_Witness ==
    \E t \in TableUsers :
        /\ tpc[t] = "ret" /\ targ[t].op = "add" /\ tres[t].err = "KeyExists"
        /\ \E e \in EntriesOf(targ[t].key) :
               buckets[e[1]][e[2]].val # targ[t].val

\* C1: every get of a worker on the request ring takes a slot that holds a
\* request that was put and not yet taken, with any number of workers
C1_GetTakesLiveRequest ==
    \A c \in ClientIds : lastGet[ReqRing(c)].fresh

\* the number of entries of a sequence of requests or responses with counter k
CountOf(seq, k) == Cardinality({i \in 1..Len(seq) : seq[i].counter = k})

\* C2: with more than one worker, once the client has submitted its n
\* requests and its drainer has taken n responses, the counters of the
\* responses are, as a multiset, the counters of the requests
C2_CountersMatch ==
    \A c \in ClientIds :
        (threads > 1 /\ counter[c] = count[c] /\ drained[c] = count[c])
            => \A k \in 0..MaxOps :
                   CountOf(received[c], k) = CountOf(submitted[c], k)

\* C6: every response the client receives carries the operation, the key
\* and the counter of a request the client submitted
C6_ResponseEchoesRequest ==
    \A c \in ClientIds : \A i \in 1..Len(received[c]) :
        \E j \in 1..Len(submitted[c]) :
            /\ received[c][i].operation = submitted[c][j].operation
            /\ received[c][i].key = submitted[c][j].key
            /\ received[c][i].counter = submitted[c][j].counter

\* C7: with one worker per client, the responses arrive on the response
\* ring in the order of submission: their counters are 0, 1, 2, ...
C7_SingleWorkerKeepsOrder ==
    threads = 1 =>
        \A c \in ClientIds : \A i \in 1..Len(received[c]) :
            received[c][i].counter = i - 1

\* a single-worker run in which the drainer has taken two responses
C7_Witness ==
    /\ threads = 1
    /\ Len(received[0]) = 2
    /\ received[0][2].counter = 1

\* C5: no client makes a ring call on a ring of its segment before the
\* server's initialisation of that ring has returned
C5_NoRingCallBeforeInit == touched = {}

\* what read(k) returns on the table as it is: the value, or NoVal for absent
Lookup(k) ==
    IF EntriesOf(k) = {} THEN NoVal
    ELSE LET e == CHOOSE e \in EntriesOf(k) : TRUE IN buckets[e[1]][e[2]].val

\* C11: a delete(k) that finds k absent returns KeyMissing and leaves the
\* table as it was: k is still absent and every key reads its former value
C11_DeleteAbsentKeyFails ==
    [][\A t \in Threads :
          (/\ tpc[t] = "delete_position"
           /\ tpc'[t] # "delete_position"
           /\ EntriesOf(targ[t].key) = {})
          => (/\ tpc'[t] = "ret"
              /\ tres'[t].err = "KeyMissing"
              /\ buckets' = buckets
              /\ \A k \in Keys : Lookup(k)' = Lookup(k))]_vars

\* C11 witness: a delete was refused for an absent key on a table that
\* holds two other keys
C11_Witness ==
    \E t \in TableUsers :
        /\ tpc[t] = "ret" /\ targ[t].op = "delete" /\ tres[t].err = "KeyMissing"
        /\ Cardinality({k \in Keys : EntriesOf(k) # {}}) = 2
        /\ Len(buckets[targ[t].pos]) >= 1

\* the chain without its entries for key k, the others in their order
Without(chain, k) ==
    LET Keep(e) == e.key # k IN SelectSeq(chain, Keep)

\* C12: a delete(k) that succeeds removes the one entry of k from its
\* chain, at the head, in the middle or at the tail, and leaves the other
\* entries with their values and order, and the other chains, as they were
C12_DeleteRemovesOnlyItsEntry ==
    [][\A t \in Threads :
          (tpc[t] = "delete_remove" /\ tpc'[t] # "delete_remove")
          => (/\ tpc'[t] = "ret"
              /\ tres'[t].err = "none"
              /\ buckets'[targ[t].pos] = Without(buckets[targ[t].pos], targ[t].key)
              /\ Len(buckets'[targ[t].pos]) = Len(buckets[targ[t].pos]) - 1
              /\ \A b \in DOMAIN buckets :
                     b # targ[t].pos => buckets'[b] = buckets[b]
              /\ \A k \in Keys : k # targ[t].key => Lookup(k)' = Lookup(k)
              /\ Lookup(targ[t].key)' = NoVal)]_vars

\* C12 witness: a delete has removed the middle entry of a chain of three
C12_Witness ==
    \E t \in TableUsers :
        /\ tpc[t] = "ret" /\ targ[t].op = "delete" /\ tres[t].err = "none"
        /\ targ[t].entry_pos = 1
        /\ Len(buckets[targ[t].pos]) = 2

\* C13: on a table where k is absent, add(k, v) succeeds, the delete(k)
\* after it succeeds, and the read(k) after that reports absent
C13_AddDeleteReadAbsent ==
    \A i \in 1..(Len(tlog) - 2) :
        (/\ tlog[i].op = "add" /\ tlog[i].was = NoVal
         /\ tlog[i + 1].op = "delete" /\ tlog[i + 1].key = tlog[i].key
         /\ tlog[i + 2].op = "read" /\ tlog[i + 2].key = tlog[i].key)
        => (/\ tlog[i].err = "none"
            /\ tlog[i + 1].err \in {"pending", "none"}
            /\ tlog[i + 2].err \in {"pending", "absent"})

\* C13 witness: add, delete and read of one key have been called in this
\* order and have returned; the read reported absent
C13_Witness ==
    /\ Len(tlog) = 3
    /\ tlog[1].op = "add" /\ tlog[2].op = "delete" /\ tlog[3].op = "read"
    /\ tlog[2].key = tlog[1].key /\ tlog[3].key = tlog[1].key
    /\ tlog[3].err = "absent"
    /\ tpc[SeqUser] = "none"

\* C14: a put that holds the lock finds (write_pos + 1) mod C = read_pos,
\* and so fails with BufferFull, exactly when the ring holds C - 1 = 9
\* elements that were put and not yet taken
C14_PutFullIffNineElements ==
    \A t \in Threads :
        rpc[t] = "put_body"
        => (IsFull(rings[rarg[t].ring])
            <=> nPut[rarg[t].ring] - nGot[rarg[t].ring] = BUFFER_SIZE - 1)

\* C20: with at most one consumer thread per ring and no spurious wakeup,
\* the single `if` before the wait in get is as good as a loop: a get that
\* is about to read a slot never finds read_pos = write_pos, every get
\* returns the oldest element that was put and not yet taken, and read_pos
\* never passes write_pos (the distance between the positions stays the
\* number of puts minus the number of gets).
C20_SingleConsumerIfIsWhile ==
    Cardinality(consumers) <= 1 =>
        \A r \in RingIds :
            /\ \A t \in Threads :
                   (rpc[t] = "get_take" /\ rarg[t].ring = r) => ~IsEmpty(rings[r])
            /\ lastGet[r].fresh
            /\ lastGet[r].inorder
            /\ Occupancy(rings[r]) = nPut[r] - nGot[r]
            /\ nGot[r] <= nPut[r]

\* C20 witness: the only consumer has completed a get, called get again on
\* the empty ring, blocked in the wait, and has now been signalled by a put:
\* it is about to return from pthread_cond_wait without testing again.
C20_Witness ==
    /\ Cardinality(consumers) = 1
    /\ \E t \in consumers :
           /\ rpc[t] = "get_wait"
           /\ t \notin rings[rarg[t].ring].waiters
           /\ nGot[rarg[t].ring] >= 1
           /\ ~IsEmpty(rings[rarg[t].ring])

\* C15: the response a worker builds for a request. Read: the stored value
\* and error = false on a hit, 0 and error = true on a miss. Insert: the
\* inserted value and error = false when the key was absent, error = true
\* when it was there. Delete: val = 0 always, error = true iff the key was
\* absent. The table changes only on a successful Insert (the key then reads
\* the inserted value) or Delete (the key is then absent); every other key
\* keeps its value.
C15_ResponseMatchesTable ==
    [][\A c \in ClientIds : \A w \in Workers(c) :
          (spc[w] = "serve" /\ spc'[w] = "respond") =>
              \A key \in {wreq[w].key} : \A val \in {wreq[w].val} :
                  LET operation == wreq[w].operation
                      response == wresp'[w]
                      was == Lookup(key)
                      others == \A k \in Keys \ {key} : Lookup(k)' = Lookup(k)
                  IN  /\ operation = "Read" =>
                            /\ was # NoVal => (response.val = was /\ ~response.error)
                            /\ was = NoVal => (response.val = 0 /\ response.error)
                            /\ buckets' = buckets
                      /\ operation = "Insert" =>
                            /\ was = NoVal =>
                                  /\ response.val = val /\ ~response.error
                                  /\ Lookup(key)' = val
                                  /\ others
                            /\ was # NoVal => (response.error /\ buckets' = buckets)
                      /\ operation = "Delete" =>
                            /\ response.val = 0
                            /\ response.error <=> was = NoVal
                            /\ was # NoVal => (Lookup(key)' = NoVal /\ others)
                            /\ was = NoVal => buckets' = buckets
                      /\ buckets' # buckets =>
                            (operation \in {"Insert", "Delete"} /\ ~response.error)
      ]_vars

\* C15 witness: a worker holds the response to a Read that found its key:
\* the value the table stores, a value other than the 0 of a miss
C15_Witness ==
    \E c \in ClientIds : \E w \in Workers(c) :
        /\ spc[w] = "respond"
        /\ wresp[w].operation = "Read"
        /\ ~wresp[w].error
        /\ wresp[w].val # 0
        /\ wresp[w].val = Lookup(wresp[w].key)

InsertsBefore(c, i, k) ==
    {j \in 1..(i - 1) : submitted[c][j].operation = "Insert" /\ submitted[c][j].key = k}

\* C17: two clients with one worker each, on one table, each using a key of
\* its own. The answer to each request is the one the client's own requests
\* call for, whatever the other client does: the first insert of the key
\* succeeds (no duplicate error), and a read after the client's insert
\* succeeds with the value the client inserted.
C17_ClientsDoNotInterfere ==
    \A c \in ClientIds : \A i \in 1..Len(received[c]) :
        LET request == submitted[c][i]
            response == received[c][i]
            before == InsertsBefore(c, i, request.key)
            first == CHOOSE j \in before : \A l \in before : j <= l
        IN  /\ response.counter = request.counter
            /\ response.key = request.key
            /\ (request.operation = "Insert" /\ before = {}) =>
                   (~response.error /\ response.val = request.val)
            /\ (request.operation = "Read" /\ before # {}) =>
                   (~response.error /\ response.val = submitted[c][first].val)

\* C17 witness: both clients have inserted their key and read it back with
\* their value, the two values differ, and the one chain of the table holds
\* both entries
C17_Witness ==
    /\ Len(buckets[0]) = 2
    /\ \A c \in ClientIds :
           /\ Len(received[c]) = 2
           /\ received[c][1].operation = "Insert" /\ ~received[c][1].error
           /\ received[c][2].operation = "Read" /\ ~received[c][2].error
           /\ received[c][2].val = submitted[c][1].val
    /\ submitted[0][1].val # submitted[1][1].val

\* C18: creation is exclusive and attach needs the name. A server-mode new()
\* on a name that exists fails and leaves the segment as it is: not
\* truncated again, not initialised again, nothing kept for it. A
\* client-mode new() on a name that does not exist fails and creates
\* nothing; that client stays failed and has put no request.
C18_ExclusiveCreateAndAttach ==
    [][/\ (/\ spc[ServerMain] = "new_open"
           /\ client_id \in names
           /\ spc'[ServerMain] # "new_open")
          => /\ spc'[ServerMain] = "serving"
             /\ client_id' = client_id
             /\ UNCHANGED <<rings, names, sized, initialised, ipcs, created>>
       /\ \A c \in ClientIds :
             /\ (/\ spc[Main(c)] = "start"
                 /\ c \notin names
                 /\ spc'[Main(c)] # "start")
                => /\ spc'[Main(c)] = "failed"
                   /\ UNCHANGED <<rings, names, sized, initialised, nPut>>
             /\ spc[Main(c)] = "failed" => spc'[Main(c)] = "failed"
             /\ spc'[Main(c)] = "failed" => nPut'[ReqRing(c)] = 0
      ]_vars

\* C18 witness: the server found the name of one of its clients taken and
\* went to its failure path, and a client that found no name has failed
C18_Witness ==
    /\ spc[ServerMain] \in {"serving", "exited"}
    /\ client_id < clients
    /\ client_id \in names \ created
    /\ \E c \in ClientIds : spc[Main(c)] = "failed" /\ c \in created

\* C19: once the server has exited, after the interrupt signal or after a
\* failure part-way through the creation of the segments, none of the names
\* it created is left
C19_CreatedNamesUnlinked ==
    spc[ServerMain] = "exited" => created \cap names = {}

\* C24: on every ring, in every state after init, under any interleaving of
\* put and get by any number of threads, 0 <= read_pos < C and
\* 0 <= write_pos < C
C24_IndicesInRange ==
    \A r \in RingIds :
        /\ rings[r].read_pos \in 0..(BUFFER_SIZE - 1)
        /\ rings[r].write_pos \in 0..(BUFFER_SIZE - 1)

\* C24 witness: both indices have gone round the ring: after BUFFER_SIZE
\* puts and as many gets they are back at slot 0
C24_Witness ==
    /\ nPut[TestRing] = BUFFER_SIZE
    /\ nGot[TestRing] = BUFFER_SIZE
    /\ rings[TestRing].write_pos = 0
    /\ rings[TestRing].read_pos = 0

\* the positions of put and get between pthread_mutex_lock and the unlock
\* (or the wait) that follows
LockedPositions == {"put_body", "get_check", "get_take"}

\* a thread inside put or get holds the mutex of its ring, no two threads
\* are inside on one ring, and a thread that is blocked in the wait, waits
\* for the mutex, has returned or is outside a call holds no mutex
MutexHeld ==
    /\ \A t \in Threads :
           rpc[t] \in LockedPositions => rings[rarg[t].ring].lock = t
    /\ \A t, u \in Threads :
           (/\ rpc[t] \in LockedPositions /\ rpc[u] \in LockedPositions
            /\ rarg[t].ring = rarg[u].ring) => t = u
    /\ \A t \in Threads : \A r \in RingIds :
           rpc[t] \notin LockedPositions => rings[r].lock # t

\* C21: read_pos, write_pos and the slots of a ring change only in a step of
\* a thread that holds the ring's mutex; at most one thread is between lock
\* and unlock on a ring, a thread blocked in the wait not being one; every
\* return of put and get, BufferFull included, has released the mutex.
C21_RingStateUnderMutex ==
    /\ MutexHeld
    /\ [][/\ MutexHeld'
          /\ \A r \in RingIds :
                (\/ rings'[r].read_pos # rings[r].read_pos
                 \/ rings'[r].write_pos # rings[r].write_pos
                 \/ rings'[r].buffer # rings[r].buffer)
                => \E t \in Threads :
                      /\ rings[r].lock = t
                      /\ rpc[t] \in LockedPositions
                      /\ rarg[t].ring = r
                      /\ rpc'[t] = "ret"
                      /\ rings'[r].lock = NoThread
          /\ \A t \in Threads :
                (rpc[t] # "ret" /\ rpc'[t] = "ret") => rings'[rarg[t].ring].lock = NoThread
         ]_vars

\* C21 witness: after a put has returned, a second put is inside the ring
\* while a get that was woken from its wait has not yet got the mutex back
C21_Witness ==
    \E t, u \in RingUsers :
        /\ rpc[t] = "put_body"
        /\ rings[TestRing].lock = t
        /\ rpc[u] = "get_wait"
        /\ u \notin rings[TestRing].waiters
        /\ nPut[TestRing] >= 1

\* the positions of add and delete under the bucket's write guard, of read
\* under its read guard, and of the three calls before they have the guard
WritePositions == {"add_check", "add_push", "delete_position", "delete_remove"}
ReadPositions == {"read_find"}
LockWaitPositions == {"add_lock", "read_lock", "delete_lock"}

\* C22: no add or delete is inside a bucket's critical section together
\* with another add, delete or read on the same bucket; reads may be inside
\* together; and a call is kept waiting for its bucket's lock only by calls
\* on the same bucket: when every other call in progress is on another
\* bucket, the lock is free for it.
C22_BucketLocksIndependent ==
    /\ \A t, u \in Threads :
           (/\ t # u
            /\ tpc[t] \in WritePositions
            /\ tpc[u] \in WritePositions \cup ReadPositions)
           => targ[t].pos # targ[u].pos
    /\ \A t \in Threads :
           (/\ tpc[t] \in LockWaitPositions
            /\ \A u \in Threads \ {t} :
                   tpc[u] \in WritePositions \cup ReadPositions \cup LockWaitPositions
                   => targ[u].pos # targ[t].pos)
           => CanWrite(rwlock[targ[t].pos])
    /\ \A t \in Threads :
           (/\ tpc[t] = "read_lock"
            /\ \A u \in Threads \ {t} :
                   tpc[u] \in WritePositions \cup {"add_lock", "delete_lock"}
                   => targ[u].pos # targ[t].pos)
           => CanRead(rwlock[targ[t].pos])

\* C22 witness: on a table of two buckets, an add is inside one bucket
\* while a delete is inside the other, each under its own write guard
C22_Witness ==
    \E t, u \in TableUsers :
        /\ tpc[t] = "add_push"
        /\ tpc[u] = "delete_remove"
        /\ targ[t].pos # targ[u].pos
        /\ rwlock[targ[t].pos].writer = t
        /\ rwlock[targ[u].pos].writer = u

\* C23: a name left over from a server that ended without its shutdown does
\* not stop the next server: it still creates and initialises the segment
\* of that client. The creation loop is never left at a client whose name
\* the server has not made.
C23_StaleNameIsReplaced ==
    (spc[ServerMain] \in {"serving", "exited"} /\ client_id < clients)
        => client_id \in created

====
